---- MODULE Spec2Model ----
(***************************************************************************)
(* A model of the layered (bronze / silver / gold) MySQL warehouse ETL:    *)
(*   etl_scheduler.py     the scheduler and the fail-fast pipeline driver  *)
(*   run_silver_load.py   the silver script executor                       *)
(*   run_gold_load.py     the gold script executor (all-or-nothing batch)  *)
(*   run_bronze_load.py   the staging-table incremental loader             *)
(*                                                                         *)
(* Specifications:                                                         *)
(*   Spec        the scheduler process; the silver executor runs as its    *)
(*               third stage's child process                               *)
(*   SpecGold    run_gold_load.py started from the command line            *)
(*   SpecBronze  run_bronze_load.py started from the command line, with    *)
(*               the source files rewritten between loads                  *)
(***************************************************************************)
EXTENDS Integers, Sequences, FiniteSets, TLC

\* ------------------------------------------------------------------ bounds
\* pipeline runs of one scheduler process (the startup run and scheduled runs)
MaxRuns == 2
\* statements in a SQL batch file
MaxStmts == 3
\* starts of an executor process from the command line
MaxExecRuns == 2
\* starts of the bronze loader from the command line
MaxLoads == 2
\* rewrites of a source file between two loads
MaxRewrites == 1
\* statements that raise, or losses of the connection, the environment can
\* bring about in the loader
MaxFaults == 2
\* keys of a source table are 1..MaxKey
MaxKey == 2
\* data lines of a source file
MaxRows == 2
\* runs of the data generator
MaxGenRuns == 2

\* ------------------------------------------------------- program constants
DATA_GENERATOR_SCRIPT == "data_generator.py"
BRONZE_LOAD_SCRIPT == "run_bronze_load.py"
SILVER_LOAD_SCRIPT == "run_silver_load.py"
\* the gold executor's file; etl_scheduler.py defines no constant for it
GOLD_LOAD_SCRIPT == "run_gold_load.py"

VARIABLES
  \* --- etl_scheduler.py
  pc,           \* "main" | "idle" | "call" | "wait" | "crashed"
  step,         \* the step of run_daily_pipeline being run, 0 when none
  runs,         \* pipeline runs started so far
  runState,     \* "NotStarted" | "Running" | "Succeeded" | "Failed"
  failedAt,     \* the step the run failed at, 0 when none
  invoked,      \* scripts handed to subprocess.run in the current run
  results,      \* what run_script returned for them, in order
  child,        \* the script whose process is running, "none" when none
  childResult,  \* how that process ended, NoResult while it runs
  lastCall,     \* the last finished run_script call: result in, value out
  credsPresent, \* DB_USER and DB_PASSWORD are set in the environment
  \* --- run_silver_load.py / run_gold_load.py (one executor process)
  exScript,     \* the executor that is running or ran last, "none" at first
  exPc,         \* its position
  exRuns,       \* executor processes started so far
  sqlFile,      \* the SQL batch file on disk: a sequence of statements, or Missing
  conn,         \* "none" | "open" | "lost" | "closed"
  autocommit,   \* the session's autocommit flag
  sql_script,   \* the batch as read by read_sql_file
  exIdx,        \* statements of the batch executed without error
  exErr,        \* the exception in flight: "none" | "Error" | "FileNotFoundError" | "SystemExit"
  failedStmt,   \* the statement that raised, 0 when none
  sess,         \* row-level effects visible in the session: <<run, statement>>
  comm,         \* row-level effects committed in the warehouse
  ddlDone,      \* TRUNCATEs executed (never rolled back)
  nCommit,      \* connection.commit() calls that succeeded in this process
  nRollback,    \* connection.rollback() calls in this process
  exExit,       \* the process's exit status, -1 while it runs
  \* --- run_bronze_load.py
  bPc,          \* the loader's position
  bRuns,        \* loader processes started so far
  config,       \* what read_config finds in .env
  files,        \* the source file of each table: a header line, then rows
  rewritesLeft, \* rewrites of a source file that may still happen
  faultsLeft,   \* raised statements and lost connections that may still happen
  bConn,        \* "none" | "open" | "lost" | "closed"
  dbSession,    \* the warehouse as the loader's session sees it
  dbCommitted,  \* the warehouse as committed
  log_id,       \* the audit row of this run, 0 for None
  tbl,          \* index in tables_to_load of the table being processed
  rows_loaded_to_stage,
  rows_affected,
  total_rows_affected,
  bErr,         \* the exception in flight
  bExit,        \* the process's exit status, -1 while it runs
  \* --- what the loader has done, kept to state its properties
  failedTbl,    \* the table whose cycle raised in this run, 0 when none
  touched,      \* tables whose cycle began in this run
  before,       \* each target table's content when this run started
  after,        \* each target table's content when its cycle committed in this run
  lastFile,     \* the file each table's last committed cycle loaded, <<>> when none
  prevFile,     \* lastFile when this run started
  \* --- data_generator.py
  gPc,          \* the generator's position
  gRuns,        \* generator processes started so far
  csv,          \* the CSV files on disk: who wrote each, and whether in full
  gIdx,         \* index in SaveOrder of the next file to save
  csvBefore,    \* the CSV files when this run started
  gExit         \* the process's exit status, -1 while it runs

schedVars == <<pc, step, runs, runState, failedAt, invoked, results, child,
               childResult, lastCall, credsPresent>>
execVars == <<exScript, exPc, exRuns, sqlFile, conn, autocommit, sql_script,
              exIdx, exErr, failedStmt, sess, comm, ddlDone, nCommit, nRollback,
              exExit>>
bronzeVars == <<bPc, bRuns, config, files, rewritesLeft, faultsLeft, bConn, dbSession,
                dbCommitted, log_id, tbl, rows_loaded_to_stage, rows_affected,
                total_rows_affected, bErr, bExit, failedTbl, touched, before,
                after, lastFile, prevFile>>
genVars == <<gPc, gRuns, csv, gIdx, csvBefore, gExit>>
vars == <<schedVars, execVars, bronzeVars, genVars>>

\* ===================================================== etl_scheduler.py ====

NoResult == [started |-> FALSE, code |-> -1]
\* a process that could not be started, or its exit status
ProcResults == {[started |-> FALSE, code |-> 0]} \cup
               {[started |-> TRUE, code |-> c] : c \in {0, 1, 2}}

\* run_script without check=True: any process that started counts as a success
RunScriptNoCheck(res) ==
  IF ~res.started THEN [raised |-> FALSE, value |-> FALSE]
  ELSE [raised |-> FALSE, value |-> TRUE]
\* run_script without its except clauses: a failed process raises in the caller
RunScriptPropagating(res) ==
  IF ~res.started \/ res.code # 0 THEN [raised |-> TRUE, value |-> FALSE]
  ELSE [raised |-> FALSE, value |-> TRUE]
\* run_script: subprocess.run(..., check=True) raises CalledProcessError on a
\* non-zero exit status and some other exception when the process cannot be
\* started; both handlers return False.
run_script(res) ==
  IF ~res.started THEN [raised |-> FALSE, value |-> FALSE]
  ELSE IF res.code # 0 THEN [raised |-> FALSE, value |-> FALSE]
  ELSE [raised |-> FALSE, value |-> TRUE]

\* a pipeline that calls the bronze load a second time in place of the silver
\* load
StageOrderBronzeTwice ==
  <<DATA_GENERATOR_SCRIPT, BRONZE_LOAD_SCRIPT, BRONZE_LOAD_SCRIPT>>
\* the scripts of run_daily_pipeline, in call order
StageOrder == <<DATA_GENERATOR_SCRIPT, BRONZE_LOAD_SCRIPT, SILVER_LOAD_SCRIPT>>
LastStep == Len(StageOrder)

\* a gate that lacks the "return" after a failed bronze load
AbortsOnlyOnGeneration(k, success) == ~success /\ k = 1
\* the gate after a step: "if not gen_success: ... return" and its like
Aborts(k, success) == ~success

InitSched ==
  /\ pc = "main"
  /\ step = 0
  /\ runs = 0
  /\ runState = "NotStarted"
  /\ failedAt = 0
  /\ invoked = <<>>
  /\ results = <<>>
  /\ child = "none"
  /\ childResult = NoResult
  /\ lastCall = [script |-> "none", res |-> NoResult,
                 ret |-> [raised |-> FALSE, value |-> FALSE]]
  /\ credsPresent \in BOOLEAN

\* run_daily_pipeline is entered: a new run starts at step 1
StartPipeline ==
  /\ runs' = runs + 1
  /\ runState' = "Running"
  /\ failedAt' = 0
  /\ invoked' = <<>>
  /\ results' = <<>>
  /\ step' = 1
  /\ pc' = "call"

\* main: missing credentials are only warned about; the job is scheduled and
\* the pipeline is run once at startup
SchedulerMain ==
  /\ pc = "main"
  /\ StartPipeline
  /\ UNCHANGED <<child, childResult, lastCall, credsPresent, execVars, bronzeVars, genVars>>

\* the main loop: schedule.run_pending() runs the job when it is due
RunPending ==
  /\ pc = "idle"
  /\ runs < MaxRuns
  /\ StartPipeline
  /\ UNCHANGED <<child, childResult, lastCall, credsPresent, execVars, bronzeVars, genVars>>

\* run_script calls subprocess.run for the step's script
RunScriptCall ==
  /\ pc = "call"
  /\ child' = StageOrder[step]
  /\ childResult' = NoResult
  /\ invoked' = Append(invoked, StageOrder[step])
  /\ pc' = "wait"
  /\ UNCHANGED <<step, runs, runState, failedAt, results, lastCall,
                 credsPresent, execVars, bronzeVars, genVars>>

\* the process could not be started (subprocess.run raises OSError)
SpawnFails ==
  /\ pc = "wait"
  /\ childResult = NoResult
  /\ child = SILVER_LOAD_SCRIPT => exPc \in {"off", "exited"}
  /\ childResult' = [started |-> FALSE, code |-> 0]
  /\ UNCHANGED <<pc, step, runs, runState, failedAt, invoked, results, child,
                 lastCall, credsPresent, execVars, bronzeVars, genVars>>

\* data_generator.py and run_bronze_load.py run to their end; here only their
\* exit status matters (the loader itself is specified in SpecBronze)
StageProcessExits ==
  /\ pc = "wait"
  /\ childResult = NoResult
  /\ child \in {DATA_GENERATOR_SCRIPT, BRONZE_LOAD_SCRIPT}
  /\ \E c \in {0, 1, 2} : childResult' = [started |-> TRUE, code |-> c]
  /\ UNCHANGED <<pc, step, runs, runState, failedAt, invoked, results, child,
                 lastCall, credsPresent, execVars, bronzeVars, genVars>>

\* a run_script that starts the process and does not wait for it
ReturnsAtOnce(res) == TRUE
\* subprocess.run blocks until the child process has ended (or could not be
\* started)
Returns(res) == res # NoResult

\* subprocess.run returns or raises; run_script returns; run_daily_pipeline
\* applies the step's gate
RunScriptReturn ==
  /\ pc = "wait"
  /\ Returns(childResult)
  /\ LET ret == run_script(childResult)
         success == ret.value
     IN /\ lastCall' = [script |-> child, res |-> childResult, ret |-> ret]
        /\ child' = "none"
        /\ childResult' = NoResult
        /\ IF ret.raised
           THEN /\ pc' = "crashed"
                /\ UNCHANGED <<step, runState, failedAt, results>>
           ELSE /\ results' = Append(results, success)
                /\ IF Aborts(step, success)
                   THEN /\ runState' = "Failed"
                        /\ failedAt' = step
                        /\ step' = 0
                        /\ pc' = "idle"
                   ELSE IF step = LastStep
                   THEN /\ runState' = IF success THEN "Succeeded" ELSE "Failed"
                        /\ failedAt' = IF success THEN 0 ELSE step
                        /\ step' = 0
                        /\ pc' = "idle"
                   ELSE /\ step' = step + 1
                        /\ pc' = "call"
                        /\ UNCHANGED <<runState, failedAt>>
  /\ UNCHANGED <<runs, invoked, credsPresent, execVars, bronzeVars, genVars>>

\* ================================ run_silver_load.py / run_gold_load.py ====
\* The two executors are the same code but for two lines: the gold one sets
\* connection.autocommit = False, and its except handler ends in sys.exit(1).

\* statements of a batch: a row-level INSERT/UPDATE/DELETE, a TRUNCATE, a SELECT
StmtKinds == {"dml", "ddl", "query"}
Batches == UNION {[1..n -> StmtKinds] : n \in 0..MaxStmts}
\* os.path.exists(file_path) is false
Missing == <<"ENOENT">>

\* the except handler of the gold executor ends in sys.exit(1); the silver
\* executor's does not
SetsAutocommitOff(script) == script = GOLD_LOAD_SCRIPT
ExitsOnError(script) == script = GOLD_LOAD_SCRIPT

\* the interpreter's exit status: 1 after sys.exit(1) or an uncaught exception
ExitStatus(err) == IF err = "none" THEN 0 ELSE 1

InitExec ==
  /\ exScript = "none"
  /\ exPc = "off"
  /\ exRuns = 0
  /\ sqlFile \in Batches \cup {Missing}
  /\ conn = "none"
  /\ autocommit = FALSE
  /\ sql_script = <<>>
  /\ exIdx = 0
  /\ exErr = "none"
  /\ failedStmt = 0
  /\ sess = {}
  /\ comm = {}
  /\ ddlDone = {}
  /\ nCommit = 0
  /\ nRollback = 0
  /\ exExit = -1

schedFrame == <<pc, step, runs, runState, failedAt, invoked, results, child,
                lastCall, credsPresent>>

\* a new executor process: fresh locals, a warehouse as committed so far
StartExecutor(script) ==
  /\ exScript' = script
  /\ exPc' = "validate"
  /\ exRuns' = exRuns + 1
  /\ conn' = "none"
  /\ autocommit' = FALSE
  /\ sql_script' = <<>>
  /\ exIdx' = 0
  /\ exErr' = "none"
  /\ failedStmt' = 0
  /\ sess' = comm
  /\ nCommit' = 0
  /\ nRollback' = 0
  /\ exExit' = -1
  /\ UNCHANGED <<sqlFile, comm, ddlDone>>

\* the scheduler's child process for step 3 starts
SilverStart ==
  /\ pc = "wait"
  /\ child = SILVER_LOAD_SCRIPT
  /\ childResult = NoResult
  /\ exPc \in {"off", "exited"}
  /\ StartExecutor(SILVER_LOAD_SCRIPT)
  /\ UNCHANGED <<bronzeVars, genVars, schedFrame, childResult>>

\* python run_gold_load.py
GoldStart ==
  /\ child = "none"
  /\ exPc \in {"off", "exited"}
  /\ exRuns < MaxExecRuns
  /\ StartExecutor(GOLD_LOAD_SCRIPT)
  /\ UNCHANGED <<bronzeVars, genVars, schedFrame, childResult>>

Running == exPc \notin {"off", "exited"}

\* the process ends with this status; its parent, if any, sees it
ProcessExit(code) ==
  /\ exPc' = "exited"
  /\ exExit' = code
  /\ childResult' = IF child = exScript
                     THEN [started |-> TRUE, code |-> code]
                     ELSE childResult

\* "if not DB_CONFIG['user'] or not DB_CONFIG['password']: sys.exit(1)"
ExValidate ==
  /\ exPc = "validate"
  /\ IF credsPresent
     THEN /\ exPc' = "connect"
          /\ UNCHANGED <<exExit, childResult>>
     ELSE ProcessExit(1)
  /\ UNCHANGED <<bronzeVars, genVars, schedFrame, exScript, exRuns, sqlFile, conn, autocommit,
                 sql_script, exIdx, exErr, failedStmt, sess, comm, ddlDone,
                 nCommit, nRollback>>

\* mysql.connector.connect returns a connection (autocommit off, the
\* connector's default) or raises Error
ExConnect ==
  /\ exPc = "connect"
  /\ \/ /\ conn' = "open"
        /\ exPc' = "check"
        /\ UNCHANGED exErr
     \/ /\ exErr' = "Error"
        /\ exPc' = "except"
        /\ UNCHANGED conn
  /\ UNCHANGED <<bronzeVars, genVars, schedFrame, childResult, exScript, exRuns, sqlFile,
                 autocommit, sql_script, exIdx, failedStmt, sess, comm,
                 ddlDone, nCommit, nRollback, exExit>>

\* the server or the network drops the session; what it had not committed is
\* rolled back by the server
ConnectionLost ==
  /\ Running
  /\ conn = "open"
  /\ conn' = "lost"
  /\ sess' = comm
  /\ UNCHANGED <<bronzeVars, genVars, schedFrame, childResult, exScript, exPc, exRuns, sqlFile,
                 autocommit, sql_script, exIdx, exErr, failedStmt, comm,
                 ddlDone, nCommit, nRollback, exExit>>

\* "if connection.is_connected():" the body is skipped when it is false
ExCheckConnected ==
  /\ exPc = "check"
  /\ IF conn = "open"
     THEN /\ autocommit' = IF SetsAutocommitOff(exScript) THEN FALSE ELSE autocommit
          /\ exPc' = "read"
     ELSE /\ exPc' = "finally"
          /\ UNCHANGED autocommit
  /\ UNCHANGED <<bronzeVars, genVars, schedFrame, childResult, exScript, exRuns, sqlFile, conn,
                 sql_script, exIdx, exErr, failedStmt, sess, comm, ddlDone,
                 nCommit, nRollback, exExit>>

\* read_sql_file: FileNotFoundError is no mysql.connector.Error, so the except
\* clause does not catch it
ExRead ==
  /\ exPc = "read"
  /\ IF sqlFile = Missing
     THEN /\ exErr' = "FileNotFoundError"
          /\ exPc' = "finally"
          /\ UNCHANGED sql_script
     ELSE /\ sql_script' = sqlFile
          /\ exPc' = "exec"
          /\ UNCHANGED exErr
  /\ UNCHANGED <<bronzeVars, genVars, schedFrame, childResult, exScript, exRuns, sqlFile, conn,
                 autocommit, exIdx, failedStmt, sess, comm, ddlDone, nCommit,
                 nRollback, exExit>>

\* One statement of the batch on the server. A dml statement changes rows in
\* the session's transaction (committed at once under autocommit); a TRUNCATE
\* commits the transaction in progress (MySQL's implicit commit) and is
\* itself never rolled back; a query changes nothing.
Effect(i) == <<exRuns, i>>
Executed(kind, i) ==
  CASE kind = "dml" ->
         /\ sess' = sess \cup {Effect(i)}
         /\ comm' = IF autocommit THEN comm \cup {Effect(i)} ELSE comm
         /\ UNCHANGED ddlDone
    [] kind = "ddl" ->
         /\ sess' = sess
         /\ comm' = sess
         /\ ddlDone' = ddlDone \cup {Effect(i)}
    [] OTHER -> UNCHANGED <<sess, comm, ddlDone>>

\* a loop that leaves out the statement after one that returned rows
AdvanceSkippingAfterQuery(kind, i, n) ==
  IF kind = "query" /\ i < n THEN i + 1 ELSE i
\* the loop body "if result.with_rows: print(...) else: print(...)": whatever
\* the result of statement i, the statements done are 1..i and the loop goes
\* on with statement i + 1
Advance(kind, i, n) == i

\* the loop "for result in cursor.execute(sql_script, multi=True)": the next
\* statement runs, or raises Error; its result is only printed
ExStatement ==
  /\ exPc = "exec"
  /\ exIdx < Len(sql_script)
  /\ LET i == exIdx + 1 IN
     \/ /\ conn = "open"
        /\ Executed(sql_script[i], i)
        /\ exIdx' = Advance(sql_script[i], i, Len(sql_script))
        /\ UNCHANGED <<exPc, exErr, failedStmt>>
     \/ /\ exErr' = "Error"
        /\ failedStmt' = i
        /\ exPc' = "except"
        /\ UNCHANGED <<exIdx, sess, comm, ddlDone>>
  /\ UNCHANGED <<bronzeVars, genVars, schedFrame, childResult, exScript, exRuns, sqlFile, conn,
                 autocommit, sql_script, nCommit, nRollback, exExit>>

\* "connection.commit()" after the loop
ExCommit ==
  /\ exPc = "exec"
  /\ exIdx = Len(sql_script)
  /\ \/ /\ conn = "open"
        /\ comm' = sess
        /\ nCommit' = nCommit + 1
        /\ exPc' = "finally"
        /\ UNCHANGED exErr
     \/ /\ exErr' = "Error"
        /\ exPc' = "except"
        /\ UNCHANGED <<comm, nCommit>>
  /\ UNCHANGED <<bronzeVars, genVars, schedFrame, childResult, exScript, exRuns, sqlFile, conn,
                 autocommit, sql_script, exIdx, failedStmt, sess, ddlDone,
                 nRollback, exExit>>

\* "except Error as e": rollback when still connected; the gold executor then
\* calls sys.exit(1), the silver executor falls through
ExExcept ==
  /\ exPc = "except"
  /\ IF conn = "open"
     THEN /\ sess' = comm
          /\ nRollback' = nRollback + 1
     ELSE UNCHANGED <<sess, nRollback>>
  /\ exErr' = IF ExitsOnError(exScript) THEN "SystemExit" ELSE "none"
  /\ exPc' = "finally"
  /\ UNCHANGED <<bronzeVars, genVars, schedFrame, childResult, exScript, exRuns, sqlFile, conn,
                 autocommit, sql_script, exIdx, failedStmt, comm, ddlDone,
                 nCommit, exExit>>

\* "finally": the connection is closed when still connected, and the process
\* ends
ExFinally ==
  /\ exPc = "finally"
  /\ conn' = IF conn = "open" THEN "closed" ELSE conn
  /\ sess' = comm
  /\ ProcessExit(ExitStatus(exErr))
  /\ UNCHANGED <<bronzeVars, genVars, schedFrame, exScript, exRuns, sqlFile, autocommit,
                 sql_script, exIdx, exErr, failedStmt, comm, ddlDone, nCommit,
                 nRollback>>

Executor ==
  \/ ExValidate
  \/ ExConnect
  \/ ConnectionLost
  \/ ExCheckConnected
  \/ ExRead
  \/ ExStatement
  \/ ExCommit
  \/ ExExcept
  \/ ExFinally

\* =================================================== run_bronze_load.py ====

\* tables_to_load, cut to its first two entries
tables_to_load == <<"crm_cust_info", "crm_prd_info">>
NumTables == Len(tables_to_load)
TableIds == 1..NumTables

\* a row: its unique key (the first column) and the other columns as one value
Keys == 1..MaxKey
Vals == {"a", "b"}
AllRows == [k : Keys, v : Vals]
\* the header line that LOAD DATA skips with IGNORE 1 LINES
Header == [k |-> 0, v |-> "header"]
AllFiles == {<<Header>> \o rows : rows \in UNION {[1..n -> AllRows] : n \in 0..MaxRows}}

\* a target table: how many copies of each row it holds
EmptyTable == [r \in AllRows |-> 0]
Rows(T) == {r \in AllRows : T[r] > 0}
KeysOf(T) == {r.k : r \in Rows(T)}
RECURSIVE Total(_, _)
Total(T, S) == IF S = {} THEN 0
               ELSE LET r == CHOOSE x \in S : TRUE IN T[r] + Total(T, S \ {r})
RowCount(T) == Total(T, AllRows)
StagedKeys(stg) == {stg[i].k : i \in DOMAIN stg}

\* LOAD DATA LOCAL INFILE ... IGNORE 1 LINES: the rows after the first line
LoadData(file) == IF file = <<>> THEN <<>> ELSE Tail(file)

\* INSERT INTO a target that has no unique key: every row is added
InsertNoKey(T, r) == [T EXCEPT ![r] = @ + 1]
\* the INSERT IGNORE that the upsert replaced: an existing key keeps its row
InsertIgnore(T, r) == IF r.k \in KeysOf(T) THEN T ELSE [T EXCEPT ![r] = 1]
\* INSERT ... ON DUPLICATE KEY UPDATE col = VALUES(col) for every column, one
\* row: a new key is inserted, the row of an existing key takes the new values
Upsert(T, r) ==
  IF r.k \in KeysOf(T)
  THEN [x \in AllRows |-> IF x.k = r.k THEN (IF x = r THEN 1 ELSE 0) ELSE T[x]]
  ELSE [T EXCEPT ![r] = 1]

\* cursor.rowcount of that row: 1 for an insert, 2 for an update, 0 when the
\* existing row already holds the values
Affected(T, r) == IF r.k \notin KeysOf(T) THEN 1 ELSE IF T[r] > 0 THEN 0 ELSE 2

\* a load that replaces the target's content with the staged rows
RECURSIVE MergeReplacing(_, _)
MergeReplacing(T, stg) ==
  IF stg = <<>> THEN EmptyTable
  ELSE Upsert(MergeReplacing(T, SubSeq(stg, 1, Len(stg) - 1)), stg[Len(stg)])
\* merge_query over the staging table's rows, in order
RECURSIVE Merge(_, _)
Merge(T, stg) == IF stg = <<>> THEN T ELSE Merge(Upsert(T, Head(stg)), Tail(stg))
RECURSIVE MergeCount(_, _)
MergeCount(T, stg) ==
  IF stg = <<>> THEN 0
  ELSE Affected(T, Head(stg)) + MergeCount(Upsert(T, Head(stg)), Tail(stg))

\* the statement of log_etl_start and of log_etl_end on etl_log
\* an audit table that keeps the last run's row only
AuditInsertReplacing(log) == <<"In Progress">>
AuditInsert(log) == Append(log, "In Progress")
\* an UPDATE etl_log that lacks its WHERE log_id = ... clause
AuditUpdateNoWhere(log, id, status) == [i \in DOMAIN log |-> status]
AuditUpdate(log, id, status) == [log EXCEPT ![id] = status]

Configs == {"ok", "no_env_file", "no_db_vars", "no_path_vars"}

EmptyWarehouse == [tgt |-> [t \in TableIds |-> EmptyTable],
                   stg |-> [t \in TableIds |-> <<>>],
                   log |-> <<>>]

InitBronzeState ==
  /\ bPc = "off"
  /\ bRuns = 0
  /\ bConn = "none"
  /\ dbSession = EmptyWarehouse
  /\ dbCommitted = EmptyWarehouse
  /\ log_id = 0
  /\ tbl = 0
  /\ rows_loaded_to_stage = 0
  /\ rows_affected = 0
  /\ total_rows_affected = 0
  /\ bErr = "none"
  /\ bExit = -1
  /\ failedTbl = 0
  /\ touched = {}
  /\ before = [t \in TableIds |-> EmptyTable]
  /\ after = [t \in TableIds |-> EmptyTable]
  /\ lastFile = [t \in TableIds |-> <<>>]
  /\ prevFile = [t \in TableIds |-> <<>>]

\* the loader's inputs: its .env and the source files
InitBronze ==
  /\ config \in Configs
  /\ files \in [TableIds -> AllFiles]
  /\ InitBronzeState

\* the loader is not part of the run: its state stays as it is
BronzeIdle ==
  /\ config = "ok"
  /\ files = [t \in TableIds |-> <<Header>>]
  /\ rewritesLeft = 0
  /\ faultsLeft = 0
  /\ InitBronzeState

bronzeFrame == <<schedVars, execVars, genVars, config>>

\* a statement raises although the connection is up, or because it is down
Fault == faultsLeft > 0 /\ faultsLeft' = faultsLeft - 1
Fails == \/ bConn # "open" /\ UNCHANGED faultsLeft
         \/ bConn = "open" /\ Fault

\* python run_bronze_load.py: main is entered
BStart ==
  /\ bPc \in {"off", "exited"}
  /\ bRuns < MaxLoads
  /\ bRuns' = bRuns + 1
  /\ bPc' = "config"
  /\ bConn' = "none"
  /\ dbSession' = dbCommitted
  /\ log_id' = 0
  /\ tbl' = 0
  /\ rows_loaded_to_stage' = 0
  /\ rows_affected' = 0
  /\ total_rows_affected' = 0
  /\ bErr' = "none"
  /\ bExit' = -1
  /\ failedTbl' = 0
  /\ touched' = {}
  /\ before' = dbCommitted.tgt
  /\ after' = [t \in TableIds |-> EmptyTable]
  /\ prevFile' = lastFile
  /\ UNCHANGED <<bronzeFrame, files, rewritesLeft, faultsLeft, dbCommitted,
                 lastFile>>

\* a source file is rewritten between two loads (the generator, or an
\* upstream export)
RewriteFile ==
  /\ bPc = "exited"
  /\ rewritesLeft > 0
  /\ rewritesLeft' = rewritesLeft - 1
  /\ \E t \in TableIds, f \in AllFiles :
        /\ f # files[t]
        /\ files' = [files EXCEPT ![t] = f]
  /\ UNCHANGED <<bronzeFrame, faultsLeft, bPc, bRuns, bConn, dbSession,
                 dbCommitted, log_id, tbl, rows_loaded_to_stage, rows_affected,
                 total_rows_affected, bErr, bExit, failedTbl, touched, before,
                 after, lastFile, prevFile>>

\* what the steps below leave alone unless they say otherwise
bronzeLocals == <<bRuns, files, rewritesLeft, before, prevFile>>

\* read_config: sys.exit(1) on a missing .env, DB_... or PATH_... entry
BReadConfig ==
  /\ bPc = "config"
  /\ IF config = "ok"
     THEN /\ bPc' = "connect"
          /\ UNCHANGED bExit
     ELSE /\ bPc' = "exited"
          /\ bExit' = 1
  /\ UNCHANGED <<bronzeFrame, bronzeLocals, faultsLeft, bConn, dbSession, dbCommitted,
                 log_id, tbl, rows_loaded_to_stage, rows_affected,
                 total_rows_affected, bErr, failedTbl, touched, after,
                 lastFile>>

\* a loop whose body catches the exception and goes on with the next table
RaiseAndContinue(kind) ==
  IF tbl \in TableIds
  THEN /\ bErr' = "none"
       /\ failedTbl' = tbl
       /\ tbl' = tbl + 1
       /\ bPc' = IF tbl = NumTables THEN "log_success" ELSE "truncate"
  ELSE /\ bErr' = kind
       /\ bPc' = "except"
       /\ failedTbl' = 0
       /\ tbl' = tbl
\* a statement raises: control leaves the loop for the except clauses
Raise(kind) ==
  /\ bErr' = kind
  /\ bPc' = "except"
  /\ failedTbl' = IF tbl \in TableIds THEN tbl ELSE 0
  /\ tbl' = tbl

\* mysql.connector.connect returns a connection or raises
BConnect ==
  /\ bPc = "connect"
  /\ \/ /\ bConn' = "open"
        /\ bPc' = "check"
        /\ UNCHANGED <<bErr, failedTbl, faultsLeft, tbl>>
     \/ /\ Fault
        /\ Raise("Error")
        /\ UNCHANGED bConn
  /\ UNCHANGED <<bronzeFrame, bronzeLocals, dbSession, dbCommitted, log_id,
                 rows_loaded_to_stage, rows_affected, total_rows_affected,
                 bExit, touched, after, lastFile>>

\* the session is dropped; the server rolls back what it had not committed
BConnectionLost ==
  /\ bPc \notin {"off", "config", "exited"}
  /\ bConn = "open"
  /\ Fault
  /\ bConn' = "lost"
  /\ dbSession' = dbCommitted
  /\ UNCHANGED <<bronzeFrame, bronzeLocals, bPc, dbCommitted, log_id, tbl,
                 rows_loaded_to_stage, rows_affected, total_rows_affected,
                 bErr, bExit, failedTbl, touched, after, lastFile>>

\* "if not connection.is_connected(): sys.exit(1)"; SystemExit passes the
\* except clauses
BCheckConnected ==
  /\ bPc = "check"
  /\ IF bConn = "open"
     THEN /\ bPc' = "log_start"
          /\ UNCHANGED bErr
     ELSE /\ bErr' = "SystemExit"
          /\ bPc' = "finally"
  /\ UNCHANGED <<bronzeFrame, bronzeLocals, faultsLeft, bConn, dbSession, dbCommitted,
                 log_id, tbl, rows_loaded_to_stage, rows_affected,
                 total_rows_affected, bExit, failedTbl, touched, after,
                 lastFile>>

\* a log_etl_start that leaves its INSERT to a later commit
log_etl_start_uncommitted ==
  LET db == [dbSession EXCEPT !.log = AuditInsert(@)] IN
  [s |-> db, c |-> dbCommitted, lastrowid |-> Len(db.log)]
\* log_etl_start: INSERT the "In Progress" row, commit, return lastrowid
log_etl_start ==
  LET db == [dbSession EXCEPT !.log = AuditInsert(@)] IN
  [s |-> db, c |-> db, lastrowid |-> Len(db.log)]

\* "log_id, process_start_time = log_etl_start(connection, ...)"
BLogStart ==
  /\ bPc = "log_start"
  /\ \/ /\ bConn = "open"
        /\ dbSession' = log_etl_start.s
        /\ dbCommitted' = log_etl_start.c
        /\ log_id' = log_etl_start.lastrowid
        /\ tbl' = 1
        /\ bPc' = "truncate"
        /\ UNCHANGED <<bErr, failedTbl, faultsLeft>>
     \/ /\ Fails
        /\ Raise("Error")
        /\ UNCHANGED <<dbSession, dbCommitted, log_id>>
  /\ UNCHANGED <<bronzeFrame, bronzeLocals, bConn, rows_loaded_to_stage,
                 rows_affected, total_rows_affected, bExit, touched, after,
                 lastFile>>

\* 1. TRUNCATE TABLE stg_<table>: commits the transaction in progress (MySQL's
\* implicit commit) and empties the staging table for good
BTruncate ==
  /\ bPc = "truncate"
  /\ \/ /\ bConn = "open"
        /\ LET db == [dbSession EXCEPT !.stg[tbl] = <<>>] IN
             /\ dbSession' = db
             /\ dbCommitted' = db
        /\ touched' = touched \cup {tbl}
        /\ bPc' = "load"
        /\ UNCHANGED <<bErr, failedTbl, faultsLeft, tbl>>
     \/ /\ Fails
        /\ Raise("Error")
        /\ touched' = touched \cup {tbl}
        /\ UNCHANGED <<dbSession, dbCommitted>>
  /\ UNCHANGED <<bronzeFrame, bronzeLocals, bConn, log_id,
                 rows_loaded_to_stage, rows_affected, total_rows_affected,
                 bExit, after, lastFile>>

\* 2. LOAD DATA LOCAL INFILE into the staging table; a file that cannot be
\* read or does not fit the table raises
BLoad ==
  /\ bPc = "load"
  /\ \/ /\ bConn = "open"
        /\ dbSession' = [dbSession EXCEPT !.stg[tbl] = @ \o LoadData(files[tbl])]
        /\ rows_loaded_to_stage' = Len(LoadData(files[tbl]))
        /\ bPc' = "merge"
        /\ UNCHANGED <<bErr, failedTbl, faultsLeft, tbl>>
     \/ /\ Fails
        /\ \E kind \in {"Error", "Exception"} : Raise(kind)
        /\ UNCHANGED <<dbSession, rows_loaded_to_stage>>
  /\ UNCHANGED <<bronzeFrame, bronzeLocals, bConn, dbCommitted, log_id,
                 rows_affected, total_rows_affected, bExit, touched, after,
                 lastFile>>

\* 3. merge_query: upsert the staging table's rows into the target table
BMerge ==
  /\ bPc = "merge"
  /\ \/ /\ bConn = "open"
        /\ dbSession' = [dbSession EXCEPT
                           !.tgt[tbl] = Merge(@, dbSession.stg[tbl])]
        /\ rows_affected' = MergeCount(dbSession.tgt[tbl], dbSession.stg[tbl])
        /\ total_rows_affected' = total_rows_affected
                                    + MergeCount(dbSession.tgt[tbl], dbSession.stg[tbl])
        /\ bPc' = "commit"
        /\ UNCHANGED <<bErr, failedTbl, faultsLeft, tbl>>
     \/ /\ Fails
        /\ Raise("Error")
        /\ UNCHANGED <<dbSession, rows_affected, total_rows_affected>>
  /\ UNCHANGED <<bronzeFrame, bronzeLocals, bConn, dbCommitted, log_id,
                 rows_loaded_to_stage, bExit, touched, after, lastFile>>

\* connection.commit() after the table's workflow; then the next table, or
\* the end of the loop
BCommit ==
  /\ bPc = "commit"
  /\ \/ /\ bConn = "open"
        /\ dbCommitted' = dbSession
        /\ after' = [after EXCEPT ![tbl] = dbSession.tgt[tbl]]
        /\ lastFile' = [lastFile EXCEPT ![tbl] = files[tbl]]
        /\ tbl' = tbl + 1
        /\ bPc' = IF tbl = NumTables THEN "log_success" ELSE "truncate"
        /\ UNCHANGED <<bErr, failedTbl, faultsLeft>>
     \/ /\ Fails
        /\ Raise("Error")
        /\ UNCHANGED <<dbCommitted, after, lastFile>>
  /\ UNCHANGED <<bronzeFrame, bronzeLocals, bConn, dbSession, log_id,
                 rows_loaded_to_stage, rows_affected, total_rows_affected,
                 bExit, touched>>

\* log_etl_end: UPDATE the run's row, then commit. What can come of it: both
\* done; the UPDATE done and the commit raising; the UPDATE raising
log_etl_end(status) ==
  LET db == [dbSession EXCEPT !.log = AuditUpdate(@, log_id, status)] IN
  IF bConn = "open"
  THEN {[s |-> db, c |-> db, raised |-> FALSE],
        [s |-> db, c |-> dbCommitted, raised |-> TRUE],
        [s |-> dbSession, c |-> dbCommitted, raised |-> TRUE]}
  ELSE {[s |-> dbSession, c |-> dbCommitted, raised |-> TRUE]}

\* the success path after the loop: log_etl_end(..., 'Success', ...)
BLogSuccess ==
  /\ bPc = "log_success"
  /\ \E o \in log_etl_end("Success") :
        /\ dbSession' = o.s
        /\ dbCommitted' = o.c
        /\ IF o.raised
           THEN Fails /\ Raise("Error")
           ELSE /\ bPc' = "finally"
                /\ UNCHANGED <<bErr, failedTbl, faultsLeft, tbl>>
  /\ UNCHANGED <<bronzeFrame, bronzeLocals, bConn, log_id,
                 rows_loaded_to_stage, rows_affected, total_rows_affected,
                 bExit, touched, after, lastFile>>

\* "except mysql.connector.Error" / "except Exception": the audit row is
\* closed with 'Error' when there is one and the connection is up, then
\* sys.exit(1); an exception raised by log_etl_end leaves the handler instead
BExcept ==
  /\ bPc = "except"
  /\ IF log_id # 0 /\ bConn = "open"
     THEN \E o \in log_etl_end("Error") :
            /\ dbSession' = o.s
            /\ dbCommitted' = o.c
            /\ IF o.raised THEN Fault ELSE UNCHANGED faultsLeft
            /\ bErr' = IF o.raised THEN "Error" ELSE "SystemExit"
     ELSE /\ bErr' = "SystemExit"
          /\ UNCHANGED <<dbSession, dbCommitted, faultsLeft>>
  /\ bPc' = "finally"
  /\ UNCHANGED <<bronzeFrame, bronzeLocals, bConn, log_id, tbl,
                 rows_loaded_to_stage, rows_affected, total_rows_affected,
                 bExit, failedTbl, touched, after, lastFile>>

\* "finally": the connection is closed when it is up (what the session had
\* not committed is lost), and the process ends
BFinally ==
  /\ bPc = "finally"
  /\ bConn' = IF bConn = "open" THEN "closed" ELSE bConn
  /\ dbSession' = dbCommitted
  /\ bPc' = "exited"
  /\ bExit' = ExitStatus(bErr)
  /\ UNCHANGED <<bronzeFrame, bronzeLocals, faultsLeft, dbCommitted, log_id, tbl,
                 rows_loaded_to_stage, rows_affected, total_rows_affected,
                 bErr, failedTbl, touched, after, lastFile>>

Loader ==
  \/ BStart
  \/ BReadConfig
  \/ BConnect
  \/ BConnectionLost
  \/ BCheckConnected
  \/ BLogStart
  \/ BTruncate
  \/ BLoad
  \/ BMerge
  \/ BCommit
  \/ BLogSuccess
  \/ BExcept
  \/ BFinally

\* ===================================================== data_generator.py ====

\* the files generate_data saves, in the order of its to_csv calls
SaveOrder == <<"crm_cust_info", "crm_sales_details", "crm_prd_info",
               "erp_cust_az12", "erp_loc_a101">>
\* file_paths: the saved files and the one that is only read
CsvFiles == {SaveOrder[i] : i \in DOMAIN SaveOrder} \cup {"erp_px_cat_g1v2"}
\* a file's content: the generator run that wrote it (0 for the base data),
\* and whether it was written to its end
Written(run) == [by |-> run, whole |-> TRUE]
CutShort(run) == [by |-> run, whole |-> FALSE]

InitGen ==
  /\ gPc = "off"
  /\ gRuns = 0
  /\ csv = [f \in CsvFiles |-> Written(0)]
  /\ gIdx = 0
  /\ csvBefore = [f \in CsvFiles |-> Written(0)]
  /\ gExit = -1

genFrame == <<schedVars, execVars, bronzeVars>>

\* python data_generator.py: generate_data is entered
GStart ==
  /\ gPc \in {"off", "exited"}
  /\ gRuns < MaxGenRuns
  /\ gRuns' = gRuns + 1
  /\ gPc' = "load"
  /\ gIdx' = 0
  /\ csvBefore' = csv
  /\ gExit' = -1
  /\ UNCHANGED <<genFrame, csv>>

\* 1. pd.read_csv of the six files; a file that cannot be parsed raises (one
\* that was cut short may or may not parse)
GLoad ==
  /\ gPc = "load"
  /\ \/ gPc' = "simulate"
     \/ gPc' = "except"
  /\ UNCHANGED <<genFrame, gRuns, csv, gIdx, csvBefore, gExit>>

\* 2. to 6.: the dataframes are changed in memory; random.sample over too few
\* rows, or "raise ValueError" for the sales order numbers, raises
GSimulate ==
  /\ gPc = "simulate"
  /\ \/ gPc' = "save" /\ gIdx' = 1
     \/ gPc' = "except" /\ UNCHANGED gIdx
  /\ UNCHANGED <<genFrame, gRuns, csv, csvBefore, gExit>>

\* 7. one to_csv call on the file's own path: the file is written in full;
\* or the call raises before it opened the file; or it raises after it
\* opened (and so emptied) the file, part of the rows written
GSave ==
  /\ gPc = "save"
  /\ LET f == SaveOrder[gIdx] IN
     \/ /\ csv' = [csv EXCEPT ![f] = Written(gRuns)]
        /\ IF gIdx = Len(SaveOrder)
           THEN gPc' = "exited" /\ gExit' = 0 /\ UNCHANGED gIdx
           ELSE gIdx' = gIdx + 1 /\ UNCHANGED <<gPc, gExit>>
     \/ /\ gPc' = "except"
        /\ UNCHANGED <<csv, gIdx, gExit>>
     \/ /\ csv' = [csv EXCEPT ![f] = CutShort(gRuns)]
        /\ gPc' = "except"
        /\ UNCHANGED <<gIdx, gExit>>
  /\ UNCHANGED <<genFrame, gRuns, csvBefore>>

\* "except Exception as e": the failure is logged and raised again; the
\* process ends with status 1
GExcept ==
  /\ gPc = "except"
  /\ gPc' = "exited"
  /\ gExit' = 1
  /\ UNCHANGED <<genFrame, gRuns, csv, gIdx, csvBefore>>

Generator ==
  \/ GStart
  \/ GLoad
  \/ GSimulate
  \/ GSave
  \/ GExcept

\* ======================================================= specifications ====

Init == InitSched /\ InitExec /\ BronzeIdle /\ InitGen

Next ==
  \/ SchedulerMain
  \/ RunPending
  \/ RunScriptCall
  \/ SpawnFails
  \/ StageProcessExits
  \/ SilverStart
  \/ Executor
  \/ RunScriptReturn

Spec == Init /\ [][Next]_vars

\* the scheduler when every stage process it starts comes to an end: the
\* interpreter goes on with the pipeline, a started process runs on to its
\* exit, and subprocess.run returns or raises
SpecFair ==
  /\ Init
  /\ [][Next]_vars
  /\ WF_vars(SchedulerMain)
  /\ WF_vars(RunScriptCall)
  /\ WF_vars(StageProcessExits \/ SpawnFails \/ SilverStart)
  /\ WF_vars(Executor)
  /\ WF_vars(RunScriptReturn)

\* the generator alone, run after run
SpecGen == Init /\ [][Generator]_vars

NextGold == GoldStart \/ Executor

SpecGold == Init /\ [][NextGold]_vars

\* the loader alone: no scheduler, no executor
InitLoader ==
  /\ InitSched
  /\ credsPresent
  /\ InitExec
  /\ sqlFile = <<>>
  /\ rewritesLeft = 0
  /\ faultsLeft = MaxFaults
  /\ InitBronze
  /\ InitGen

SpecBronze == InitLoader /\ [][Loader]_vars

\* the loader over source files that change between two loads
InitReload ==
  /\ InitSched
  /\ credsPresent
  /\ InitExec
  /\ sqlFile = <<>>
  /\ rewritesLeft = MaxRewrites
  /\ faultsLeft = 1
  /\ InitBronze
  /\ InitGen

NextReload == Loader \/ RewriteFile

SpecReload == InitReload /\ [][NextReload]_vars

\* ================================================== claims: the pipeline ====

Range(f) == {f[i] : i \in DOMAIN f}

\* C1: the first stage whose outcome is a failure moves the run to Failed at
\* that stage and no later stage is invoked in that run; when the bronze
\* stage fails, neither the silver nor the gold script is invoked.
C1_FailFast ==
  /\ \A i \in 1..Len(results) :
        ~results[i] => /\ i = Len(results)
                       /\ Len(invoked) = i
                       /\ runState = "Failed"
                       /\ failedAt = i
  /\ runState = "Failed" =>
        /\ failedAt \in 1..LastStep
        /\ invoked = SubSeq(StageOrder, 1, failedAt)
        /\ Len(results) = failedAt
        /\ ~results[failedAt]
  /\ (runState = "Failed" /\ failedAt = 2) =>
        /\ SILVER_LOAD_SCRIPT \notin Range(invoked)
        /\ GOLD_LOAD_SCRIPT \notin Range(invoked)

\* a second run that failed at the bronze stage and is over
C1_Witness ==
  /\ runs = 2
  /\ pc = "idle"
  /\ runState = "Failed"
  /\ failedAt = 2
  /\ lastCall.script = BRONZE_LOAD_SCRIPT

\* C2: a run in which every stage succeeds invokes generate, load-bronze,
\* load-silver and load-gold, each once and in that order, before it is
\* reported as Succeeded.
C2_FourStagesThenSucceeded ==
  runState = "Succeeded" =>
    invoked = <<DATA_GENERATOR_SCRIPT, BRONZE_LOAD_SCRIPT, SILVER_LOAD_SCRIPT,
                GOLD_LOAD_SCRIPT>>

\* C3: a stage process exits with status 0 only when its database work ran to
\* completion and was committed, so the pipeline is never reported as
\* finished successfully after a stage whose work failed.
C3_ExitZeroOnlyWhenCommitted ==
  /\ (exPc = "exited" /\ exExit = 0) =>
        /\ nCommit = 1
        /\ sql_script = sqlFile
        /\ exIdx = Len(sql_script)
  /\ runState = "Succeeded" => nCommit = 1

\* C4: run_script never raises; it returns True exactly when the unit's
\* process was started and exited with status 0.
C4_RunScriptTotal ==
  /\ pc # "crashed"
  /\ lastCall.script # "none" =>
        /\ ~lastCall.ret.raised
        /\ lastCall.ret.value <=> (lastCall.res.started /\ lastCall.res.code = 0)

\* run_script has returned for a unit that could not be started, and the run
\* went on to its orderly end
C4_Witness ==
  /\ lastCall.script # "none"
  /\ ~lastCall.res.started
  /\ ~lastCall.ret.value
  /\ runState = "Failed"

\* ============================================= claims: the gold executor ====

\* C9: when statement k of a gold batch fails with an execution error (the
\* connection staying up), a rollback is issued, no row-level effect of the
\* statements before k is visible after the run, no commit was issued, and
\* the executor reports failure.
C9_FailedBatchLeavesNoRows ==
  (exScript = GOLD_LOAD_SCRIPT /\ exPc = "exited" /\ failedStmt > 0
     /\ conn = "closed") =>
    /\ nRollback = 1
    /\ \A e \in comm : e[1] # exRuns
    /\ nCommit = 0
    /\ exExit # 0

\* C10: the gold executor runs every statement with autocommit off, commits
\* at most once and only after the whole batch ran without error, and
\* signals success only in a run in which it committed.
C10_OneCommitThenSuccess ==
  exScript = GOLD_LOAD_SCRIPT =>
    /\ exPc = "exec" => ~autocommit
    /\ nCommit <= 1
    /\ nCommit = 1 => /\ sql_script = sqlFile
                      /\ exIdx = Len(sql_script)
                      /\ failedStmt = 0
    /\ (exPc = "exited" /\ exExit = 0) => nCommit = 1

\* ======================================== claims: the incremental loader ====

\* the table's cycle has committed in this run; lastFile[t] is then the file
\* that cycle staged
Done(t) == t \in TableIds /\ t < tbl

\* C5: at the end of a successful incremental load of a table, the target
\* holds one row per key of its previous content and of the staged file; a
\* key of the file holds a staged row (the staged row, when the file has one
\* row for the key), and every other key holds its previous row.
C5_TargetIsKeyedUnion ==
  \A t \in TableIds :
    Done(t) =>
      LET T == dbCommitted.tgt[t]
          staged == LoadData(lastFile[t])
      IN /\ KeysOf(T) = KeysOf(before[t]) \cup StagedKeys(staged)
         /\ \A k \in Keys : Total(T, {r \in AllRows : r.k = k}) <= 1
         /\ \A r \in Rows(T) :
              IF r.k \in StagedKeys(staged)
              THEN \E i \in DOMAIN staged : staged[i] = r
              ELSE before[t][r] = 1
         /\ \A i \in DOMAIN staged :
              (\A j \in DOMAIN staged : staged[j].k = staged[i].k => j = i)
                => T[staged[i]] = 1

\* the scenario of the claim: a target holding (1, a) has loaded a file with
\* (1, b) and (2, a)
C5_Witness ==
  /\ Done(1)
  /\ Rows(before[1]) = {[k |-> 1, v |-> "a"]}
  /\ lastFile[1] = <<Header, [k |-> 1, v |-> "b"], [k |-> 2, v |-> "a"]>>
  /\ Rows(dbCommitted.tgt[1]) = {[k |-> 1, v |-> "b"], [k |-> 2, v |-> "a"]}
  /\ rows_loaded_to_stage = 2
  /\ rows_affected >= 2

\* C6: a load that staged the file that the table's previous load staged
\* leaves the target's content, and so its row count, as they were.
C6_ReloadIsIdempotent ==
  \A t \in TableIds :
    (Done(t) /\ prevFile[t] = lastFile[t]) =>
      /\ dbCommitted.tgt[t] = before[t]
      /\ RowCount(dbCommitted.tgt[t]) = RowCount(before[t])

\* a second load of an unmodified two-row file has committed
C6_Witness ==
  \E t \in TableIds :
    /\ Done(t)
    /\ bRuns = 2
    /\ prevFile[t] = lastFile[t]
    /\ Len(LoadData(lastFile[t])) = 2
    /\ RowCount(before[t]) = 2

\* C7: the merge adds one row per distinct staged key that the target lacks,
\* and leaves every row whose key is not staged, and every other table, as it
\* was.
C7_MergeAddsOnePerNewKey ==
  [][(bPc = "merge" /\ bPc' = "commit") =>
       LET T == dbSession.tgt[tbl]
           T2 == dbSession'.tgt[tbl]
           sk == StagedKeys(dbSession.stg[tbl])
       IN /\ RowCount(T2) = RowCount(T) + Cardinality(sk \ KeysOf(T))
          /\ \A r \in AllRows : r.k \notin sk => T2[r] = T[r]
          /\ \A t \in TableIds \ {tbl} : dbSession'.tgt[t] = dbSession.tgt[t]
    ]_vars

\* a merge has run over a staging table that holds a new key twice, into a
\* target that held a row of another key
C7_Witness ==
  /\ bPc = "commit"
  /\ Len(dbSession.stg[tbl]) = 2
  /\ StagedKeys(dbSession.stg[tbl]) = {2}
  /\ KeysOf(before[tbl]) = {1}
  /\ RowCount(dbSession.tgt[tbl]) = 2

\* C8: when the cycle of table N fails, the tables before N hold what their
\* cycles committed, the tables after N are not processed, and the load stops
\* at N and exits with a non-zero status.
C8_FailureKeepsEarlierTables ==
  (failedTbl > 0 /\ bPc \in {"except", "finally", "exited"}) =>
    /\ tbl = failedTbl
    /\ \A t \in TableIds :
         /\ t < failedTbl =>
              /\ dbCommitted.tgt[t] = after[t]
              /\ dbCommitted.tgt[t] = Merge(before[t], LoadData(lastFile[t]))
         /\ t > failedTbl =>
              /\ t \notin touched
              /\ dbCommitted.tgt[t] = before[t]
    /\ bPc = "exited" => bExit # 0

\* the load has failed in the second table's cycle after the first table's
\* rows were committed
C8_Witness ==
  /\ bPc = "exited"
  /\ failedTbl = 2
  /\ bExit = 1
  /\ RowCount(after[1]) = 2
  /\ RowCount(before[1]) = 0

\* ================================================ claims: the audit log ====

Terminal == {"Success", "Error"}

\* C11: once a load has ended, however it ended, the audit row it inserted
\* has gone from "In Progress" to a terminal status, and no audit row is
\* left "In Progress".
C11_NoRowLeftInProgress ==
  bPc = "exited" =>
    \A i \in DOMAIN dbCommitted.log : dbCommitted.log[i] \in Terminal

\* C12: a load that failed after its audit row was written ends with that
\* row committed as "Error" and with a non-zero exit status.
C12_FailureIsAuditedAsError ==
  (bPc = "exited" /\ log_id # 0 /\ failedTbl > 0) =>
    /\ dbCommitted.log[log_id] = "Error"
    /\ bExit # 0

\* C14: the audit row a run updates is the row that log_etl_start inserted
\* in that run as "In Progress": log_id is set by log_etl_start only, to the
\* row it appended, and cleared when a run starts; only the row log_id is
\* ever updated, by the success path or by an except handler.
C14_EndOnlyAfterBegin ==
  [][/\ log_id' # log_id =>
          \/ bPc' = "config" /\ log_id' = 0
          \/ /\ bPc = "log_start"
             /\ dbCommitted'.log = Append(dbCommitted.log, "In Progress")
             /\ log_id' = Len(dbCommitted'.log)
     /\ \A db \in {<<dbSession, dbSession'>>, <<dbCommitted, dbCommitted'>>} :
          \A i \in DOMAIN db[1].log :
            (i \in DOMAIN db[2].log /\ db[2].log[i] # db[1].log[i]
               /\ db[2].log[i] \in Terminal) =>
              /\ bPc \in {"log_success", "except"}
              /\ log_id # 0
              /\ i = log_id
              /\ dbCommitted.log[i] = "In Progress"
    ]_vars

\* the second run has closed its own row, the first run's row staying as it
\* was closed
C14_Witness ==
  /\ bRuns = 2
  /\ bPc = "finally"
  /\ log_id = 2
  /\ dbCommitted.log = <<"Error", "Success">>

\* C15: the audit rows in the warehouse only grow in number, a row changes
\* once at most, from "In Progress" to "Success" or "Error", and a terminal
\* status stays.
C15_AuditIsAppendThenUpdate ==
  [][/\ Len(dbCommitted'.log) >= Len(dbCommitted.log)
     /\ \A i \in DOMAIN dbCommitted.log :
          dbCommitted'.log[i] # dbCommitted.log[i] =>
            /\ dbCommitted.log[i] = "In Progress"
            /\ dbCommitted'.log[i] \in Terminal
    ]_vars

\* the Success end-write failed and the except handler closed the row as
\* "Error", after an earlier run's row was closed
C15_Witness ==
  /\ bRuns = 2
  /\ bPc = "finally"
  /\ failedTbl = 0
  /\ tbl = NumTables + 1
  /\ log_id = 2
  /\ dbCommitted.log[1] \in Terminal
  /\ dbCommitted.log[2] = "Error"

\* ========================================= claims: the loader's tables ====

\* C13: a staging table holds rows only between its TRUNCATE and the merge
\* that follows it in the cycle of its table; in particular it is empty once
\* that cycle has committed, and after the load has ended.
C13_StagingEmptyOutsideCycle ==
  \A t \in TableIds :
    (Done(t) \/ bPc = "exited") => dbCommitted.stg[t] = <<>>

\* ============================================ claims: the pipeline, II ====

\* C16: with the database credentials absent from the environment the
\* scheduler invokes no stage.
C16_NoStageWithoutCredentials ==
  ~credsPresent => invoked = <<>>

\* C17: within one pipeline run each stage is invoked once at most, in the
\* order of the pipeline, and nothing is invoked after a stage has failed.
C17_NoRetry ==
  /\ \A i, j \in DOMAIN invoked : invoked[i] = invoked[j] => i = j
  /\ Len(invoked) <= LastStep
  /\ invoked = SubSeq(StageOrder, 1, Len(invoked))
  /\ \A i \in DOMAIN results : ~results[i] => Len(invoked) = i
  /\ (pc = "call" /\ step > 0) => (\A i \in DOMAIN results : results[i])

\* a run has ended in the failure of its second stage, each stage before it
\* and that stage having been invoked once
C17_Witness ==
  /\ pc = "idle"
  /\ runState = "Failed"
  /\ results = <<TRUE, FALSE>>
  /\ invoked = <<DATA_GENERATOR_SCRIPT, BRONZE_LOAD_SCRIPT>>

\* ====================================== claims: the loader's tables, II ====

\* a load that went through every table and reported success
Succeeded == bPc = "exited" /\ bExit = 0 /\ tbl = NumTables + 1

\* C18: when a load has succeeded over source files that the loads before
\* it, failed or not, had as well, every target table holds what one
\* successful load of these files into the original, empty, warehouse gives.
C18_RerunAfterFailureConverges ==
  Succeeded =>
    \A t \in TableIds :
      dbCommitted.tgt[t] = Merge(EmptyWarehouse.tgt[t], LoadData(files[t]))

\* the second load has succeeded after a first one that committed the first
\* table's two rows and failed in the second table's cycle
C18_Witness ==
  /\ Succeeded
  /\ bRuns = 2
  /\ prevFile[1] = files[1]
  /\ prevFile[2] = <<>>
  /\ RowCount(before[1]) = 2
  /\ RowCount(dbCommitted.tgt[2]) = 2

\* C19: no step removes a key from a target table, in the warehouse or in
\* the loader's session while its connection is up.
C19_TargetKeysStay ==
  [][\A t \in TableIds :
       /\ KeysOf(dbCommitted.tgt[t]) \subseteq KeysOf(dbCommitted'.tgt[t])
       /\ (bConn = "open" /\ bConn' = "open") =>
            KeysOf(dbSession.tgt[t]) \subseteq KeysOf(dbSession'.tgt[t])
    ]_vars

\* a load has committed a table whose file no longer has a key that the
\* table held before the load
C19_Witness ==
  \E t \in TableIds :
    /\ Done(t)
    /\ bRuns = 2
    /\ KeysOf(before[t]) \ StagedKeys(LoadData(lastFile[t])) # {}
    /\ StagedKeys(LoadData(lastFile[t])) \ KeysOf(before[t]) # {}

\* C20: when the cycle of table N has raised, the except handler's step
\* commits no row of that cycle: the staging table and the target table of N
\* stay, in the warehouse, as they were when the exception was raised.
C20_FailedCycleCommitsNothing ==
  [][(bPc = "except" /\ failedTbl > 0) =>
       /\ dbCommitted'.stg[failedTbl] = dbCommitted.stg[failedTbl]
       /\ dbCommitted'.tgt[failedTbl] = dbCommitted.tgt[failedTbl]
    ]_vars

\* ================================================= claims: ordering ====

\* C21: within a load the steps of a table come in the order truncate, load,
\* merge, commit, for one table at a time in list order: the truncate of the
\* first table follows log_etl_start, and the truncate of table N+1 follows
\* the step in which the commit of table N committed the session.
C21_StepsInOrder ==
  [][/\ (bPc' = "load" /\ bPc # "load") => (bPc = "truncate" /\ tbl' = tbl)
     /\ (bPc' = "merge" /\ bPc # "merge") => (bPc = "load" /\ tbl' = tbl)
     /\ (bPc' = "commit" /\ bPc # "commit") => (bPc = "merge" /\ tbl' = tbl)
     /\ (bPc' = "truncate" /\ (bPc # "truncate" \/ tbl' # tbl)) =>
          \/ bPc = "log_start" /\ tbl' = 1
          \/ /\ bPc = "commit"
             /\ tbl \in TableIds
             /\ tbl' = tbl + 1
             /\ dbCommitted' = dbSession
     /\ tbl' # tbl => (tbl' = 0 \/ tbl' = tbl + 1)
     /\ tbl' = tbl + 1 => bPc \in {"log_start", "commit"}
     /\ bPc \in {"truncate", "load", "merge", "commit"} => tbl \in TableIds
    ]_vars

\* the second table is about to be truncated, the first table's rows being
\* committed
C21_Witness ==
  /\ bPc = "truncate"
  /\ tbl = 2
  /\ RowCount(dbCommitted.tgt[1]) = 2
  /\ dbCommitted.tgt[1] = after[1]

\* C22: the gold executor runs the statements of the batch one by one in
\* file order, whatever their results; the statement that raises is the one
\* after the last one run, no statement runs after it, and the commit comes
\* after the last statement of the file.
C22_StatementsInFileOrder ==
  [][exScript' = GOLD_LOAD_SCRIPT =>
       /\ exIdx' # exIdx =>
            \/ exPc' = "validate" /\ exIdx' = 0
            \/ /\ exPc = "exec"
               /\ failedStmt = 0
               /\ exIdx' = exIdx + 1
       /\ \A e \in (sess' \ sess) \cup (ddlDone' \ ddlDone) :
            e = <<exRuns, exIdx + 1>> /\ exIdx' = exIdx + 1
       /\ (failedStmt' # failedStmt /\ failedStmt' # 0) =>
            (failedStmt = 0 /\ failedStmt' = exIdx + 1 /\ exIdx' = exIdx)
       /\ nCommit' > nCommit =>
            (exIdx = Len(sqlFile) /\ sql_script = sqlFile /\ failedStmt = 0)
    ]_vars

\* a batch of three statements that begins with a query has been run to its
\* end and committed
C22_Witness ==
  /\ exScript = GOLD_LOAD_SCRIPT
  /\ exPc = "finally"
  /\ Len(sql_script) = 3
  /\ sql_script[1] = "query"
  /\ exIdx = 3
  /\ nCommit = 1
  /\ Cardinality(sess) + Cardinality(ddlDone) = 2

\* C23: the run's audit row is committed before any table work starts and
\* stays committed whatever follows: once log_etl_start has returned, the
\* warehouse holds the run's row, and when the run has failed the row is
\* "In Progress" or "Error".
C23_BeginIsDurable ==
  /\ touched # {} => log_id # 0
  /\ log_id # 0 =>
       /\ log_id \in DOMAIN dbCommitted.log
       /\ (bErr # "none" \/ failedTbl > 0 \/ (bPc = "exited" /\ bExit # 0)) =>
            dbCommitted.log[log_id] \in {"In Progress", "Error"}

\* the connection was lost in the first table's cycle and the load has
\* ended, its row still "In Progress"
C23_Witness ==
  /\ bPc = "exited"
  /\ bConn = "lost"
  /\ failedTbl = 1
  /\ log_id = 1
  /\ dbCommitted.log = <<"In Progress">>

\* C24: the rows-affected count of a merge is the same whether the staged
\* keys are new to the target or already in it: for a staging table of
\* distinct keys, each new or held by the target with other values, it is
\* the count that the merge into an empty target gives.
C24_InsertAndUpdateCountAlike ==
  (bPc = "commit" /\ bConn = "open") =>
    LET stg == dbSession.stg[tbl] IN
    (/\ \A i, j \in DOMAIN stg : stg[i].k = stg[j].k => i = j
     /\ \A i \in DOMAIN stg : before[tbl][stg[i]] = 0) =>
      rows_affected = MergeCount(EmptyTable, stg)

\* ========================================== claims: the pipeline, III ====

\* C25: one pipeline run is active at a time and one stage process at a
\* time: a stage process exists only while run_script waits for it in the
\* run's current step, a run starts only when no run is active and no stage
\* process is left, and a stage is started only when none is running.
C25_OneRunOneStage ==
  [][/\ child' # "none" =>
          /\ pc' = "wait"
          /\ runState' = "Running"
          /\ step' \in 1..LastStep
          /\ child' = StageOrder[step']
     /\ Running' => (child' = exScript' /\ childResult' = NoResult)
     /\ (runState' = "Running") <=> (pc' \in {"call", "wait"})
     /\ runs' # runs =>
          /\ runs' = runs + 1
          /\ runState # "Running"
          /\ child = "none"
          /\ ~Running
     /\ (child' # "none" /\ child = "none") => ~Running
     /\ (Len(invoked') > Len(invoked) /\ Len(invoked) > 0) =>
          /\ Len(results) = Len(invoked)
          /\ child = "none"
    ]_vars

\* the second run has reached its third stage, whose process is running
C25_Witness ==
  /\ runs = 2
  /\ step = 3
  /\ child = SILVER_LOAD_SCRIPT
  /\ Running
  /\ exRuns = 2
  /\ Len(results) = 2

\* C26: when every stage process ends, a run that has started ends, and it
\* ends as Succeeded or as Failed at one stage.
C26_RunEndsWithOneOutcome ==
  /\ (runState = "Running") ~>
       (pc = "idle" /\ runState \in {"Succeeded", "Failed"})
  /\ [](pc = "idle" =>
          \/ runState = "Succeeded" /\ failedAt = 0
          \/ runState = "Failed" /\ failedAt \in 1..LastStep)

\* the second run has ended in the failure of its third stage
C26_Witness ==
  /\ runs = 2
  /\ pc = "idle"
  /\ runState = "Failed"
  /\ failedAt = 3
  /\ exPc = "exited"

\* =========================================== claims: the data generator ====

\* C27: when a run of the generator has ended, the five files it saves all
\* hold the new content in full, or all hold what they held when the run
\* started.
C27_SaveIsAllOrNothing ==
  gPc = "exited" =>
    \/ \A i \in DOMAIN SaveOrder : csv[SaveOrder[i]] = Written(gRuns)
    \/ \A i \in DOMAIN SaveOrder : csv[SaveOrder[i]] = csvBefore[SaveOrder[i]]

====
